---- MODULE Spec2Model ----
(***************************************************************************)
(* nlon: Correspondence, Peer and Server of packages/nlon, modelled as a   *)
(* state machine.  One JavaScript run-to-completion step (a stream event   *)
(* with everything it calls synchronously, or one continuation of an       *)
(* async function) is one action.                                          *)
(***************************************************************************)
EXTENDS Naturals, Integers, Sequences, FiniteSets, TLC

\* ------------------------------------------------------------------ bounds
MaxObjs == 2       \* Correspondence objects constructed in one run
MaxInbound == 2    \* values the ndjson parser yields in one run
MaxCalls == 2      \* write()/finish()/error()/send() calls of local code in one run
MaxReaders == 1    \* next()/all() consumers in one run
MaxPending == 2    \* next() calls that wait at once in a run of concurrent readers
MaxFrames == 2     \* frames handed to the one correspondence of a reading run
MaxInvocations == 1  \* correspondences a Server hands to handlers in one run

\* ------------------------------------------------------------------ values
Undef == "undefined"            \* JavaScript undefined
End == "Correspondence.End"     \* the _CorrespondenceEnd symbol
NoObj == 0

Objs == 1..MaxObjs
Readers == 1..MaxPending
Consumers == 1..MaxReaders
CorrIds == {"c1", "c2"}
Subjects == {"s1"}
Bodies == {"a", "b"}
Events == {"data", "finish", "error"}

\* MessageTypes of protocol.mjs
MessageTypes == [Data |-> "data", Error |-> "err", Finish |-> "fin"]

\* the error a remote err frame carries (MessageError: type, message)
RemoteError == [type |-> "RemoteError", message |-> "remote failed"]
NoMessageError == [type |-> "", message |-> ""]

\* A value yielded by the parser.  header = FALSE is a value without header;
\* cid / subject "" is a missing or empty field.
Frame(h, c, s, t, b, e) ==
  [header |-> h, cid |-> c, subject |-> s, type |-> t, body |-> b, error |-> e]

ValidFrames ==
  {Frame(TRUE, c, s, MessageTypes.Data, b, NoMessageError) :
      c \in CorrIds, s \in Subjects, b \in Bodies \cup {Undef}}
  \cup {Frame(TRUE, c, s, MessageTypes.Finish, b, NoMessageError) :
      c \in CorrIds, s \in Subjects, b \in {"a", Undef}}
  \cup {Frame(TRUE, c, s, MessageTypes.Error, Undef, RemoteError) :
      c \in CorrIds, s \in Subjects}

InvalidFrames ==
  { Frame(FALSE, "", "", MessageTypes.Data, "a", NoMessageError),
    Frame(TRUE, "", "s1", MessageTypes.Data, "a", NoMessageError),
    Frame(TRUE, "c1", "", MessageTypes.Data, "a", NoMessageError) }

\* what the parser yields on a connection in the runs below
ParsedValues ==
  {m \in ValidFrames : m.body # "b" /\ (m.type = MessageTypes.Data => m.body = "a")}
  \cup InvalidFrames

\* Message.validate: the three assertions of protocol.mjs
validate(message) ==
  /\ message.header
  /\ message.cid # ""
  /\ message.subject # ""

\* ------------------------------------------------------------------ state
VARIABLES
  corr,             \* Correspondence objects: #readable, #writable, header, #stream
  ilis,             \* listeners of Correspondence.#internal: {<<reader, event>>}
  plis,             \* events of a Correspondence that have a public listener
  rd,               \* consumers of next() / all()
  wire,             \* frames written to the stream, in order
  correspondences,  \* Peer.#correspondences
  nobj,             \* number of Correspondence objects constructed
  stream,           \* Peer.#stream is defined (isConnected)
  pipe,             \* Peer.#pipe is defined and Peer.#handler is attached to it
  ing,              \* the frames handed to the correspondence under test, in order
  last,             \* the last operation and how it ended
  nin,              \* values the parser yielded so far
  ncalls,           \* local calls made so far
  exceptionHandlers,  \* Server.#exceptionHandlers
  inv,              \* Server: the #applyHandler / #handleException run of each Correspondence
  rcv,              \* the promise of a Peer.receive() call
  srv               \* Server: #handlers, #defaultHandler, and whether #peers holds the stream

vars == <<corr, ilis, plis, rd, wire, correspondences, nobj, stream, pipe,
          ing, last, nin, ncalls, exceptionHandlers, inv, rcv, srv>>

NoCorr == [used |-> FALSE, cid |-> "", subject |-> "", readable |-> FALSE,
           writable |-> FALSE]
\* A consumer: the correspondence it reads with next() or all(), where it
\* stands, how its #nextChunk promise settled, the chunks it obtained so
\* far, and how many frames had been handled when it first pulled.
NoError == [name |-> "", type |-> "", message |-> ""]
Pending == [kind |-> "pending", val |-> Undef, err |-> NoError]
\* from is the header of the frame that settled its promise, hdr the header
\* next() read from #header for its read handlers.
NoHeader == [cid |-> "", subject |-> ""]
NoReader == [obj |-> NoObj, mode |-> "none", pc |-> "unused", res |-> Pending,
             out |-> <<>>, seen |-> 0, from |-> NoHeader, hdr |-> NoHeader]
\* The last operation: what was called on which object, what it threw, the
\* events the Peer emitted and the events Correspondences emitted to their
\* public listeners during it, the Correspondence it constructed and those
\* whose handle() it called; msg is the message it was given.
NoMessage == [header |-> FALSE, cid |-> "", subject |-> "", type |-> "",
              body |-> Undef, error |-> NoMessageError]
\* For a Server, also the subject handlers it invoked, the handler that was
\* registered and the exception handlers that were registered.
NoLast == [op |-> "none", obj |-> NoObj, msg |-> NoMessage, threw |-> "none",
           emitted |-> <<>>, pub |-> <<>>, created |-> NoObj, ingested |-> <<>>,
           invoked |-> <<>>, registered |-> <<>>, args |-> <<>>]

\* What a handler throws: an object with a name and a message (new Error),
\* a value without either (a string, {}), or undefined / null.
NoException == [nullish |-> FALSE, name |-> "none", message |-> ""]
Exceptions ==
  { [nullish |-> FALSE, name |-> "Error", message |-> "boom"],
    [nullish |-> FALSE, name |-> "", message |-> ""],
    [nullish |-> TRUE, name |-> "", message |-> ""] }

\* A subject handler (CorrespondenceHandler): what it does to the
\* correspondence before it returns or first awaits, what it does after the
\* await when it is async, and whether it ends by returning or by throwing.
NoHandler == [async |-> FALSE, first |-> "none", second |-> "none",
              end |-> "return", exc |-> NoException]
\* A CorrespondenceExceptionHandler: sync or async, what it does to the
\* correspondence, and whether it returns or throws.
NoExceptionHandler == [async |-> FALSE, act |-> "none", end |-> "return"]

\* Server: where #applyHandler (ah) and #handleException (he) stand for one
\* correspondence, how the promise of the handler (hres) and of the awaited
\* exception handler number i (xres) settled, what the handler threw and
\* whether the correspondence was writable then, how many
\* UnfinishedCorrespondenceErrors were emitted for it, and whether the catch
\* block of #handleException was entered; i is the number of the exception
\* handler called last.
NoInvocation ==
  [handler |-> NoHandler, ah |-> "none", hres |-> "none",
   exc |-> NoException, thrownWritable |-> FALSE,
   he |-> "none", i |-> 0, xres |-> "none", errors |-> 0, caught |-> FALSE]

\* The promise Peer.receive() returned: pending, resolved with a
\* Correspondence, or rejected; first is the frame that made the Peer create
\* that Correspondence, and read tells that the awaiting code went on.
NoReceive == [pc |-> "none", obj |-> NoObj, first |-> NoMessage, read |-> FALSE]

\* the heap the operations below transform
Heap ==
  [corr |-> corr, ilis |-> ilis, plis |-> plis, rd |-> rd,
   wire |-> wire, correspondences |-> correspondences, nobj |-> nobj,
   stream |-> stream, pipe |-> pipe, last |-> NoLast,
   exceptionHandlers |-> exceptionHandlers, inv |-> inv, rcv |-> rcv,
   srv |-> srv, handler |-> NoHandler]

Store(s) ==
  /\ corr' = s.corr
  /\ ilis' = s.ilis
  /\ plis' = s.plis
  /\ rd' = s.rd
  /\ wire' = s.wire
  /\ correspondences' = s.correspondences
  /\ nobj' = s.nobj
  /\ stream' = s.stream
  /\ pipe' = s.pipe
  /\ last' = s.last
  /\ exceptionHandlers' = s.exceptionHandlers
  /\ inv' = s.inv
  /\ rcv' = s.rcv
  /\ srv' = s.srv

Throw(s, err) == [s EXCEPT !.last.threw = err]
Threw(s) == s.last.threw # "none"

\* ---------------------------------------------------- Correspondence (read)
\* a promise of #nextChunk settles: resolve(value) or reject(error)
Resolved(v) == [kind |-> "resolved", val |-> v, err |-> NoError]
Rejected(e) == [kind |-> "rejected", val |-> Undef, err |-> e]
CorrespondenceError(e) == [name |-> "CorrespondenceError", type |-> e.type,
                           message |-> e.message]
UnreadableCorrespondenceError ==
  [name |-> "UnreadableCorrespondenceError", type |-> "",
   message |-> "Correspondence is not readable!"]

\* an event of a Correspondence: a chunk with 'data', an error with 'error'
Event(name, val, err) == [name |-> name, val |-> val, err |-> err]

Settle(ev) ==
  CASE ev.name = "data" -> Resolved(ev.val)
    [] ev.name = "finish" -> Resolved(End)
    [] ev.name = "error" -> Rejected(ev.err)

\* Correspondence.emit: internal listeners shadow the public ones.  The
\* listeners of #nextChunk are registered with once(); settling a promise
\* that is already settled does nothing.  EventEmitter throws the argument
\* of an 'error' event nobody listens to.
emit(s, o, ev) ==
  LET name == ev.name
      isInternal == s.ilis[o] # {}
      hit == {r \in Readers : <<r, name>> \in s.ilis[o]}
  IN IF isInternal
     THEN IF hit = {}
          THEN IF name = "error" THEN Throw(s, "CorrespondenceError") ELSE s
          ELSE [s EXCEPT
                 !.ilis[o] = @ \ {<<r, name>> : r \in hit},
                 !.rd = [r \in Readers |->
                          IF r \in hit /\ s.rd[r].pc = "waiting"
                          THEN [s.rd[r] EXCEPT
                                 !.pc = "settled", !.res = Settle(ev),
                                 !.from = [cid |-> s.corr[o].cid,
                                           subject |-> s.corr[o].subject]]
                          ELSE s.rd[r]]]
     ELSE IF name \in s.plis[o]
          THEN [s EXCEPT !.last.pub = Append(@, [obj |-> o, ev |-> ev])]
          ELSE IF name = "error" THEN Throw(s, "CorrespondenceError") ELSE s

\* handle that emits 'finish' before the body of a fin frame
handle_finishFirst(s, o, message) ==
  LET s0 == [s EXCEPT !.last.ingested = Append(@, o)]
      hdr(x) == [x EXCEPT !.corr[o].cid = message.cid,
                          !.corr[o].subject = message.subject]
  IN CASE message.type = MessageTypes.Data ->
            emit(hdr(s0), o, Event("data", message.body, NoError))
       [] message.type = MessageTypes.Finish ->
            LET s1 == [hdr(s0) EXCEPT !.corr[o].readable = FALSE]
                s2 == emit(s1, o, Event("finish", Undef, NoError))
            IN IF message.body # Undef
               THEN emit(s2, o, Event("data", message.body, NoError))
               ELSE s2
       [] message.type = MessageTypes.Error ->
            LET s1 == [hdr(s0) EXCEPT !.corr[o].readable = FALSE]
            IN IF message.error.type = "" \/ message.error.message = ""
               THEN Throw(s1, "AssertionError")
               ELSE emit(s1, o, Event("error", Undef,
                                      CorrespondenceError(message.error)))
       [] OTHER -> s0

\* Correspondence.handle; the constructor of CorrespondenceError asserts
\* that the error of an err frame has a type and a message
handle(s, o, message) ==
  LET s0 == [s EXCEPT !.last.ingested = Append(@, o)]
      hdr(x) == [x EXCEPT !.corr[o].cid = message.cid,
                          !.corr[o].subject = message.subject]
  IN CASE message.type = MessageTypes.Data ->
            emit(hdr(s0), o, Event("data", message.body, NoError))
       [] message.type = MessageTypes.Finish ->
            LET s1 == [hdr(s0) EXCEPT !.corr[o].readable = FALSE]
                s2 == IF message.body # Undef
                      THEN emit(s1, o, Event("data", message.body, NoError))
                      ELSE s1
            IN emit(s2, o, Event("finish", Undef, NoError))
       [] message.type = MessageTypes.Error ->
            LET s1 == [hdr(s0) EXCEPT !.corr[o].readable = FALSE]
            IN IF message.error.type = "" \/ message.error.message = ""
               THEN Throw(s1, "AssertionError")
               ELSE emit(s1, o, Event("error", Undef,
                                      CorrespondenceError(message.error)))
       [] OTHER -> s0

\* Correspondence.#nextChunk: the promise executor registers three listeners
nextChunk(s, r, o) ==
  [s EXCEPT !.ilis[o] = @ \cup {<<r, e>> : e \in Events},
            !.rd[r].pc = "waiting"]

\* Correspondence.next up to its first await: #ensureReadable, #nextChunk
next(s, r, o) ==
  IF ~s.corr[o].readable
  THEN [s EXCEPT !.rd[r].pc = "failed",
                 !.rd[r].res = Rejected(UnreadableCorrespondenceError)]
  ELSE nextChunk(s, r, o)

\* one pull of the generator Correspondence.all: the loop test, then next()
all(s, r, o) ==
  IF ~s.corr[o].readable
  THEN [s EXCEPT !.rd[r].pc = "done"]
  ELSE next(s, r, o)

\* a consumer asks for the next chunk: next() or a pull of all()
pull(s, r, o, mode) ==
  LET s0 == [s EXCEPT !.rd[r].obj = o, !.rd[r].mode = mode]
  IN IF mode = "all" THEN all(s0, r, o) ELSE next(s0, r, o)

\* the finally() of #nextChunk: off() for the three listeners
cleanup(s, r) ==
  [s EXCEPT !.ilis[s.rd[r].obj] = @ \ {<<r, e>> : e \in Events},
            !.rd[r].pc = "cleaned"]

\* a continuation that puts the newest chunk first
resume_prepend(s, r) ==
  LET res == s.rd[r].res
  IN IF res.kind = "rejected" THEN [s EXCEPT !.rd[r].pc = "failed"]
     ELSE IF res.val = End THEN [s EXCEPT !.rd[r].pc = "done"]
     ELSE [s EXCEPT !.rd[r].pc = "idle", !.rd[r].out = <<res.val>> \o @,
                    !.rd[r].res = Pending,
                    !.rd[r].hdr = [cid |-> s.corr[s.rd[r].obj].cid,
                                   subject |-> s.corr[s.rd[r].obj].subject]]

\* next() after its await, and all() after its await of next(): a chunk is
\* returned / yielded, End ends the iteration, a rejection is thrown
resume(s, r) ==
  LET res == s.rd[r].res
  IN IF res.kind = "rejected" THEN [s EXCEPT !.rd[r].pc = "failed"]
     ELSE IF res.val = End THEN [s EXCEPT !.rd[r].pc = "done"]
     ELSE [s EXCEPT !.rd[r].pc = "idle", !.rd[r].out = Append(@, res.val),
                    !.rd[r].res = Pending,
                    !.rd[r].hdr = [cid |-> s.corr[s.rd[r].obj].cid,
                                   subject |-> s.corr[s.rd[r].obj].subject]]

\* --------------------------------------------------- Correspondence (write)
\* the JSON values 0, false and null
JsZero == "0 (number)"
JsFalse == "false (boolean)"
JsNull == "null"
Falsy(b) == b \in {Undef, "", JsZero, JsFalse, JsNull}

\* new Message(options): a falsy type, error or body is not copied
Message(header, type, body, error, by) ==
  [cid |-> header.cid, subject |-> header.subject, type |-> type,
   body |-> IF Falsy(body) THEN Undef ELSE body, error |-> error, by |-> by]

\* Correspondence.#makeMessage: the header is the correspondence's
makeMessage(s, o, type, body, error) ==
  Message(s.corr[o], type, body, error, o)

\* #write without #ensureWritable
write_unchecked(s, o, message) ==
  [s EXCEPT !.wire = Append(@, message)]

\* Correspondence.#write: #ensureWritable, then one line on the stream
write_(s, o, message) ==
  IF ~s.corr[o].writable
  THEN Throw(s, "UnwritableCorrespondenceError")
  ELSE [s EXCEPT !.wire = Append(@, message)]

\* Correspondence.write
write(s, o, data) ==
  write_(s, o, makeMessage(s, o, MessageTypes.Data, data, NoMessageError))

\* a finish(data) that writes the data and the end as two frames
finish_split(s, o, data) ==
  LET s1 == write_(s, o, makeMessage(s, o, MessageTypes.Data, data, NoMessageError))
      s2 == write_(s1, o, makeMessage(s, o, MessageTypes.Finish, Undef, NoMessageError))
  IN IF Threw(s1) THEN s1
     ELSE IF Falsy(data) THEN [write_(s, o, makeMessage(s, o, MessageTypes.Finish, Undef, NoMessageError))
                                 EXCEPT !.corr[o].writable = FALSE]
     ELSE [s2 EXCEPT !.corr[o].writable = FALSE]

\* Correspondence.finish: #writable = false is not reached when #write throws
finish(s, o, data) ==
  LET s1 == write_(s, o, makeMessage(s, o, MessageTypes.Finish, data, NoMessageError))
  IN IF Threw(s1) THEN s1 ELSE [s1 EXCEPT !.corr[o].writable = FALSE]

\* Correspondence.error
error(s, o, err) ==
  LET s1 == write_(s, o, makeMessage(s, o, MessageTypes.Error, Undef, err))
  IN IF Threw(s1) THEN s1 ELSE [s1 EXCEPT !.corr[o].writable = FALSE]

\* new Correspondence({ header, stream }): readable; writable when it has a
\* stream, a correspondence id and a subject
Correspondence(header, hasStream) ==
  [used |-> TRUE, cid |-> header.cid, subject |-> header.subject,
   readable |-> TRUE,
   writable |-> hasStream /\ header.cid # "" /\ header.subject # ""]

\* ------------------------------------------------------------------- Server
ServerError(kind, o) == [ev |-> "Server.error", kind |-> kind, obj |-> o]
ServerEmit(s, e) == [s EXCEPT !.last.emitted = Append(@, e)]

Acts == {"none", "write", "finish"}

Handlers ==
  {h \in [async : BOOLEAN, first : Acts, second : Acts,
          end : {"return", "throw"}, exc : Exceptions \cup {NoException}] :
     /\ ~h.async => h.second = "none"
     /\ h.async => h.first \in {"none", "finish"} /\ h.second \in {"none", "finish"}
     /\ h.first = "finish" /\ h.async => h.second = "finish" /\ h.end = "return"
     /\ h.end = "return" <=> h.exc = NoException
     /\ h.end = "throw" => h.first # "write"
     /\ h.end = "throw" /\ h.async => ~h.exc.nullish /\ h.exc.name # ""}

\* unknownSubjectHandler: error({ type: 'UnknownSubject', ... })
unknownSubjectHandler ==
  [async |-> FALSE, first |-> "unknownSubject", second |-> "none",
   end |-> "return", exc |-> NoException]

\* the subjects handlers are registered for
RegistrySubjects == {"s1", "s2"}

\* new Server(): no subject handlers, the built-in default handler, no peers.
\* replaced tells that a Peer of an earlier connect(stream) call, which
\* #peers no longer holds, still listens to the stream;
\* replacedCorrespondences is the #correspondences of that Peer.
NewServer ==
  [handlers |-> [subject \in RegistrySubjects |-> NoHandler],
   defaultHandler |-> unknownSubjectHandler,
   peers |-> FALSE,
   replaced |-> FALSE,
   replacedCorrespondences |-> [c \in CorrIds |-> NoObj]]

ExceptionHandlers == [async : BOOLEAN, act : {"none", "finish"},
                      end : {"return", "throw"}]

\* defaultExceptionHandler, as an entry of #exceptionHandlers
defaultExceptionHandlerEntry ==
  [async |-> FALSE, act |-> "default", end |-> "return"]

\* #exceptionHandlers after handleException(...handlers): the handlers
\* registered, most recent first, then the default one
Chains ==
  {<<defaultExceptionHandlerEntry>>}
  \cup {<<h, defaultExceptionHandlerEntry>> : h \in ExceptionHandlers}
  \cup {<<h, g, defaultExceptionHandlerEntry>> : h, g \in ExceptionHandlers}

\* what a handler does with the correspondence it was given
act(s, o, a) ==
  CASE a = "write" -> write(s, o, "a")
    [] a = "finish" -> finish(s, o, Undef)
    [] a = "all" ->
         LET free == {r \in Consumers : s.rd[r].mode = "none"}
         IN IF free = {} THEN s
            ELSE pull(s, CHOOSE r \in free : \A q \in free : r <= q, o, "all")
    [] a = "unknownSubject" ->
         error(s, o, [type |-> "UnknownSubject",
                      message |-> "Unknown subject: " \o s.corr[o].subject])
    [] OTHER -> s

\* the exception a throwing call of write() / finish() / error() raises
Raised(s) == [nullish |-> FALSE, name |-> s.last.threw, message |-> "thrown"]
Caught(s) == [s EXCEPT !.last.threw = "none"]

\* defaultExceptionHandler: reading a property of undefined / null throws
defaultExceptionHandler(s, o, exception) ==
  IF exception.nullish
  THEN Throw(s, "TypeError")
  ELSE error(s, o,
             [type |-> IF Falsy(exception.name) THEN "UnknownError"
                       ELSE exception.name,
              message |-> IF Falsy(exception.message)
                          THEN "Unexpected error occurred!"
                          ELSE exception.message])

\* the body of exception handler h, called with the write-only proxy
exceptionHandler(s, o, h) ==
  IF h.act = "default"
  THEN defaultExceptionHandler(s, o, s.inv[o].exc)
  ELSE LET s1 == act(s, o, h.act)
       IN IF ~Threw(s1) /\ h.end = "throw" THEN Throw(s1, "Error") ELSE s1

GenericError == [type |-> "GenericError",
                 message |-> "Failed processing correspondence"]

\* the catch block of #handleException; when error() throws there, the
\* promise of #handleException, which nobody awaits, is rejected
handleException_catch(s, o) ==
  LET s1 == error([Caught(s) EXCEPT !.inv[o].caught = TRUE], o, GenericError)
  IN IF Threw(s1)
     THEN [Caught(s1) EXCEPT !.inv[o].he = "rejected"]
     ELSE [s1 EXCEPT !.inv[o].he = "done"]

\* #handleException whose loop does not test writable
handleException_noBreak(s, o, i) ==
  IF i > Len(s.exceptionHandlers)
  THEN [s EXCEPT !.inv[o].he = "done"]
  ELSE LET h == s.exceptionHandlers[i]
           s0 == [s EXCEPT !.inv[o].i = i]
       IN IF h.async
          THEN [s0 EXCEPT !.inv[o].he = "await", !.inv[o].xres = "pending"]
          ELSE LET s1 == exceptionHandler(s0, o, h)
               IN IF Threw(s1)
                  THEN handleException_catch(s1, o)
                  ELSE [s1 EXCEPT !.inv[o].he = "await",
                                  !.inv[o].xres = "returned"]

\* #handleException from loop iteration i up to its next await
handleException(s, o, i) ==
  IF i > Len(s.exceptionHandlers) \/ ~s.corr[o].writable
  THEN [s EXCEPT !.inv[o].he = "done"]
  ELSE LET h == s.exceptionHandlers[i]
           s0 == [s EXCEPT !.inv[o].i = i]
       IN IF h.async
          THEN [s0 EXCEPT !.inv[o].he = "await", !.inv[o].xres = "pending"]
          ELSE LET s1 == exceptionHandler(s0, o, h)
               IN IF Threw(s1)
                  THEN handleException_catch(s1, o)
                  ELSE [s1 EXCEPT !.inv[o].he = "await",
                                  !.inv[o].xres = "returned"]

\* the finally block of #applyHandler that emits whatever the state is
applyHandler_finally_always(s, o) ==
  [ServerEmit([s EXCEPT !.inv[o].ah = "done", !.inv[o].handler = NoHandler],
              ServerError("UnfinishedCorrespondenceError", o))
     EXCEPT !.inv[o].errors = @ + 1]

\* the finally block of #applyHandler
applyHandler_finally(s, o) ==
  LET s1 == [s EXCEPT !.inv[o].ah = "done", !.inv[o].handler = NoHandler]
  IN IF s.corr[o].writable
     THEN [ServerEmit(s1, ServerError("UnfinishedCorrespondenceError", o))
             EXCEPT !.inv[o].errors = @ + 1]
     ELSE s1

\* the catch block of #applyHandler: #handleException is called, not awaited
applyHandler_catch(s, o) ==
  applyHandler_finally(handleException(s, o, 1), o)

\* the handler's promise is rejected, or the handler throws
handlerThrows(s, o, exc) ==
  [Caught(s) EXCEPT !.inv[o].hres = "threw", !.inv[o].exc = exc,
                    !.inv[o].thrownWritable = s.corr[o].writable]

\* #applyHandler up to its await: the handler is called; what a function
\* that is not async throws is caught at once
applyHandler(s, o, h) ==
  LET s0 == [s EXCEPT !.inv[o] = [NoInvocation EXCEPT !.handler = h,
                                                      !.ah = "await"],
                      !.last.invoked = Append(@, h)]
      s1 == act(s0, o, h.first)
  IN IF h.async
     THEN IF Threw(s1) THEN handlerThrows(s1, o, Raised(s1))
          ELSE [s1 EXCEPT !.inv[o].hres = "pending"]
     ELSE IF Threw(s1) THEN applyHandler_catch(handlerThrows(s1, o, Raised(s1)), o)
          ELSE IF h.end = "throw"
          THEN applyHandler_catch(handlerThrows(s1, o, h.exc), o)
          ELSE [s1 EXCEPT !.inv[o].hres = "returned"]

\* an async handler runs from its await to its end
handlerContinue(s, o) ==
  LET h == s.inv[o].handler
      s1 == act(s, o, h.second)
  IN IF Threw(s1) THEN handlerThrows(s1, o, Raised(s1))
     ELSE IF h.end = "throw" THEN handlerThrows(s1, o, h.exc)
     ELSE [s1 EXCEPT !.inv[o].hres = "returned"]

\* #applyHandler after its await
applyResume(s, o) ==
  IF s.inv[o].hres = "threw" THEN applyHandler_catch(s, o)
  ELSE applyHandler_finally(s, o)

\* an async exception handler runs from its await to its end
exceptionHandlerContinue(s, o) ==
  LET s1 == exceptionHandler(s, o, s.exceptionHandlers[s.inv[o].i])
  IN IF Threw(s1) THEN [Caught(s1) EXCEPT !.inv[o].xres = "threw"]
     ELSE [s1 EXCEPT !.inv[o].xres = "returned"]

\* #handleException after its await
handleExceptionResume(s, o) ==
  IF s.inv[o].xres = "threw" THEN handleException_catch(s, o)
  ELSE handleException(s, o, s.inv[o].i + 1)

\* Server.#handleCorrespondence: the handler of the subject, or the default
\* handler
handleCorrespondence(s, o, h) == applyHandler(s, o, h)

\* a lookup that ignores #handlers
findHandler_default(server, subject) == server.defaultHandler

\* the lookup of #handleCorrespondence:
\* this.#handlers.get(header.subject) ?? this.#defaultHandler
findHandler(server, subject) ==
  IF server.handlers[subject] # NoHandler
  THEN server.handlers[subject]
  ELSE server.defaultHandler

\* Server.handle(subject, handler): #handlers.set
Server_handle(s, subject, handler) ==
  [s EXCEPT !.last.op = "Server.handle", !.last.msg.subject = subject,
            !.last.registered = <<handler>>,
            !.srv.handlers[subject] = handler]

\* Server.defaultHandler(handler)
Server_defaultHandler(s, handler) ==
  [s EXCEPT !.last.op = "Server.defaultHandler",
            !.last.registered = <<handler>>,
            !.srv.defaultHandler = handler]

\* Array.prototype.reverse
reverse(handlers) ==
  [i \in 1..Len(handlers) |-> handlers[Len(handlers) + 1 - i]]

\* handleException that appends the handlers
Server_handleException_push(s, handlers) ==
  [s EXCEPT !.last.op = "Server.handleException", !.last.args = handlers,
            !.exceptionHandlers = @ \o handlers]

\* Server.handleException(...handlers): unshift(...handlers.reverse())
Server_handleException(s, handlers) ==
  [s EXCEPT !.last.op = "Server.handleException", !.last.args = handlers,
            !.exceptionHandlers = reverse(handlers) \o @]

\* --------------------------------------------------------------------- Peer
PeerError(kind) == [ev |-> "error", kind |-> kind, obj |-> NoObj]
PeerEvent(ev, o) == [ev |-> ev, kind |-> "", obj |-> o]
\* Peer.emit: the once() listeners of a pending receive() resolve it with a
\* 'correspondence' and reject it with an 'error'
PeerEmit(s, e) ==
  LET s1 == [s EXCEPT !.last.emitted = Append(@, e)]
  IN IF s.rcv.pc = "pending" /\ e.ev = "correspondence"
     THEN [s1 EXCEPT !.rcv.pc = "resolved", !.rcv.obj = e.obj,
                     !.rcv.first = s.last.msg]
     ELSE IF s.rcv.pc = "pending" /\ e.ev = "error"
     THEN [s1 EXCEPT !.rcv.pc = "rejected"]
     ELSE s1

FreeReaders(s) == {r \in Consumers : s.rd[r].mode = "none"}

\* What a subscriber of the Peer's 'correspondence' event does before it
\* returns: nothing, subscribe to the correspondence's events, start to
\* read with next() / all(), or, for the listener Server.connect attaches,
\* #handleCorrespondence with the handler found for the subject (s.handler).
listener(s, o, k) ==
  CASE k = "on" -> [s EXCEPT !.plis[o] = Events]
    [] k = "server" -> handleCorrespondence(s, o, s.handler)
    [] k \in {"next", "all"} /\ FreeReaders(s) # {} ->
         pull(s, CHOOSE r \in FreeReaders(s) : \A q \in FreeReaders(s) : r <= q,
              o, k)
    [] OTHER -> s

\* #ensureCorrespondence without the has(id) test
ensureCorrespondence_always(s, message, k) ==
  LET o == s.nobj + 1
      s1 == [s EXCEPT !.nobj = o,
                      !.corr[o] = Correspondence(message, s.stream),
                      !.last.created = o]
      s2 == listener(PeerEmit(s1, PeerEvent("correspondence", o)), o, k)
  IN [s2 EXCEPT !.correspondences[message.cid] = o, !.last.obj = o]

\* Peer.#ensureCorrespondence: a new Correspondence is emitted, then tracked
ensureCorrespondence(s, message, k) ==
  LET id == message.cid
  IN IF s.correspondences[id] = NoObj
     THEN LET o == s.nobj + 1
              s1 == [s EXCEPT !.nobj = o,
                              !.corr[o] = Correspondence(message, s.stream),
                              !.last.created = o]
              s2 == listener(PeerEmit(s1, PeerEvent("correspondence", o)), o, k)
          IN [s2 EXCEPT !.correspondences[id] = o, !.last.obj = o]
     ELSE [s EXCEPT !.last.obj = s.correspondences[id]]

\* #handleMessage that hands the frame to a new Correspondence before the
\* 'correspondence' event is emitted
handleMessage_handleFirst(s, message, k) ==
  LET s0 == [s EXCEPT !.last.op = "handleMessage", !.last.msg = message]
      id == message.cid
  IN IF ~validate(message)
     THEN PeerEmit(s0, PeerError("InvalidMessageError"))
     ELSE IF s0.correspondences[id] = NoObj
     THEN LET o == s0.nobj + 1
              s1 == [s0 EXCEPT !.nobj = o,
                               !.corr[o] = Correspondence(message, s0.stream),
                               !.last.created = o, !.last.obj = o]
              s2 == handle(s1, o, message)
              s3 == listener(PeerEmit(s2, PeerEvent("correspondence", o)), o, k)
              s4 == [s3 EXCEPT !.correspondences[id] = o]
          IN IF Threw(s4) THEN PeerEmit(s4, PeerError(s4.last.threw)) ELSE s4
     ELSE LET s1 == [s0 EXCEPT !.last.obj = s0.correspondences[id]]
              s2 == handle(s1, s1.last.obj, message)
          IN IF Threw(s2) THEN PeerEmit(s2, PeerError(s2.last.threw)) ELSE s2

\* #handleMessage that takes no frame while a next() is waiting
handleMessage_blocking(s, message, k) ==
  LET s0 == [s EXCEPT !.last.op = "handleMessage", !.last.msg = message]
  IN IF \E r \in Readers : s.rd[r].pc = "waiting"
     THEN s0
     ELSE IF ~validate(message)
     THEN PeerEmit(s0, PeerError("InvalidMessageError"))
     ELSE LET s1 == ensureCorrespondence(s0, message, k)
              s2 == handle(s1, s1.last.obj, message)
          IN IF Threw(s2) THEN PeerEmit(s2, PeerError(s2.last.threw)) ELSE s2

\* #handleMessage that stops listening when a message is invalid
handleMessage_disconnecting(s, message, k) ==
  LET s0 == [s EXCEPT !.last.op = "handleMessage", !.last.msg = message]
  IN IF ~validate(message)
     THEN [PeerEmit(s0, PeerError("InvalidMessageError")) EXCEPT
             !.pipe = FALSE, !.stream = FALSE]
     ELSE LET s1 == ensureCorrespondence(s0, message, k)
              s2 == handle(s1, s1.last.obj, message)
          IN IF Threw(s2) THEN PeerEmit(s2, PeerError(s2.last.threw)) ELSE s2

\* the 'error' listeners Peer.#connect attaches to the stream and to the
\* parser: the error is emitted as a StreamingError, nothing else changes
streamError(s, source) ==
  PeerEmit([s EXCEPT !.last.op = source], PeerError("StreamingError"))

\* Peer.#handleMessage, inside the try/catch of the 'data' handler that
\* Peer.#connect attaches: what is thrown becomes an 'error' event
handleMessage(s, message, k) ==
  LET s0 == [s EXCEPT !.last.op = "handleMessage", !.last.msg = message]
  IN IF ~validate(message)
     THEN PeerEmit(s0, PeerError("InvalidMessageError"))
     ELSE LET s1 == ensureCorrespondence(s0, message, k)
              s2 == handle(s1, s1.last.obj, message)
          IN IF Threw(s2) THEN PeerEmit(s2, PeerError(s2.last.threw)) ELSE s2

\* a disconnect that leaves the 'data' handler attached
disconnect_keepListening(s) ==
  LET s0 == [s EXCEPT !.last.op = "disconnect"]
  IN IF ~s.pipe
     THEN Throw(s0, "TypeError")
     ELSE [PeerEmit(s0, PeerEvent("disconnect", NoObj)) EXCEPT
             !.stream = FALSE]

\* Peer.disconnect: off() on an undefined #pipe is a TypeError
disconnect(s) ==
  LET s0 == [s EXCEPT !.last.op = "disconnect"]
  IN IF ~s.pipe
     THEN Throw(s0, "TypeError")
     ELSE [PeerEmit(s0, PeerEvent("disconnect", NoObj)) EXCEPT
             !.pipe = FALSE, !.stream = FALSE]

\* send that does not track the Correspondence it returns
send_untracked(s, message) ==
  LET s0 == [s EXCEPT !.last.op = "send", !.last.msg = message]
  IN IF ~s.stream THEN Throw(s0, "PeerDisconnectedError")
     ELSE IF ~validate(message) THEN Throw(s0, "AssertionError")
     ELSE LET o == s.nobj + 1
          IN [s0 EXCEPT
               !.wire = Append(@, [cid |-> message.cid,
                                   subject |-> message.subject,
                                   type |-> message.type, body |-> message.body,
                                   error |-> message.error, by |-> NoObj]),
               !.nobj = o,
               !.corr[o] = Correspondence(message, TRUE),
               !.last.obj = o, !.last.created = o]

\* a send that writes before it checks the connection and the message
send_writeFirst(s, message) ==
  LET s0 == [s EXCEPT !.last.op = "send", !.last.msg = message,
                      !.wire = Append(@, [cid |-> message.cid,
                                          subject |-> message.subject,
                                          type |-> message.type,
                                          body |-> message.body,
                                          error |-> message.error,
                                          by |-> NoObj])]
  IN IF ~s.stream THEN Throw(s0, "PeerDisconnectedError")
     ELSE IF ~validate(message) THEN Throw(s0, "AssertionError")
     ELSE LET o == s.nobj + 1
          IN [s0 EXCEPT
               !.nobj = o,
               !.corr[o] = Correspondence(message, TRUE),
               !.correspondences[message.cid] = o,
               !.last.obj = o, !.last.created = o]

ServerEvent(ev) == [ev |-> ev, kind |-> "", obj |-> NoObj]

\* Server.#handleDisconnect, the listener Server.connect puts on the Peer's
\* 'disconnect': unsubscribe, remove the peer, emit 'disconnect'
handleDisconnect(s) ==
  IF ~s.srv.peers THEN s
  ELSE ServerEmit([s EXCEPT !.srv.peers = FALSE],
                  ServerEvent("Server.disconnect"))

\* the Peer of a Server disconnects: its 'disconnect' listener runs
peerDisconnect(s) ==
  LET s1 == disconnect(s)
  IN IF Threw(s1) THEN s1 ELSE handleDisconnect(s1)

\* a Server.disconnect that leaves the peer in #peers
Server_disconnect_keepPeer(s) ==
  LET s0 == [s EXCEPT !.last.op = "Server.disconnect"]
  IN IF ~s.srv.peers THEN s0
     ELSE [disconnect(s0) EXCEPT !.last.op = "Server.disconnect"]

\* Server.disconnect(stream)
Server_disconnect(s) ==
  LET s0 == [s EXCEPT !.last.op = "Server.disconnect"]
  IN IF ~s.srv.peers THEN s0
     ELSE [peerDisconnect(s0) EXCEPT !.last.op = "Server.disconnect"]

\* Server.connect(stream): a new Peer on the stream, subscribed to and put
\* into #peers under the stream; the Peer of an earlier call for the same
\* stream loses its entry and keeps listening
Server_connect(s) ==
  LET s0 == ServerEmit([s EXCEPT !.last.op = "Server.connect"],
                       ServerEvent("Server.connect"))
  IN IF s.srv.peers
     THEN [s0 EXCEPT !.srv.replaced = TRUE,
                     !.srv.replacedCorrespondences = s.correspondences,
                     !.correspondences = [c \in CorrIds |-> NoObj]]
     ELSE [s0 EXCEPT !.srv.peers = TRUE, !.stream = TRUE, !.pipe = TRUE]

\* the Peer #peers holds and the Peer it replaced change places
swapPeers(s) ==
  [s EXCEPT !.correspondences = s.srv.replacedCorrespondences,
            !.srv.replacedCorrespondences = s.correspondences]

\* a value the parsers yield reaches the 'data' handler of every Peer that
\* listens to the stream, the one connected first being the first
dataHandlers(s, message) ==
  IF s.srv.replaced
  THEN handleMessage(swapPeers(handleMessage(swapPeers(s), message, "server")),
                     message, "server")
  ELSE handleMessage(s, message, "server")

\* Peer.receive: #requireConnected, then a promise with two once() listeners
receive(s) ==
  LET s0 == [s EXCEPT !.last.op = "receive"]
  IN IF ~s.stream THEN Throw(s0, "PeerDisconnectedError")
     ELSE [s0 EXCEPT !.rcv = [NoReceive EXCEPT !.pc = "pending"]]

\* the code that awaited receive() goes on: it calls next() on the
\* correspondence it was given
received(s) ==
  LET s0 == [s EXCEPT !.last.op = "received", !.rcv.read = TRUE]
  IN IF s.rcv.pc = "resolved" /\ FreeReaders(s) # {}
     THEN pull(s0, CHOOSE r \in FreeReaders(s) : \A q \in FreeReaders(s) : r <= q,
               s.rcv.obj, "next")
     ELSE s0

\* Peer.send: the message goes to the stream as it is, and a new
\* Correspondence replaces whatever was tracked under its id
send(s, message) ==
  LET s0 == [s EXCEPT !.last.op = "send", !.last.msg = message]
  IN IF ~s.stream THEN Throw(s0, "PeerDisconnectedError")
     ELSE IF ~validate(message) THEN Throw(s0, "AssertionError")
     ELSE LET o == s.nobj + 1
          IN [s0 EXCEPT
               !.wire = Append(@, [cid |-> message.cid,
                                   subject |-> message.subject,
                                   type |-> message.type, body |-> message.body,
                                   error |-> message.error, by |-> NoObj]),
               !.nobj = o,
               !.corr[o] = Correspondence(message, TRUE),
               !.correspondences[message.cid] = o,
               !.last.obj = o, !.last.created = o]

\* ------------------------------------------------------------------ actions
InitHeap ==
  /\ corr = [o \in Objs |-> NoCorr]
  /\ ilis = [o \in Objs |-> {}]
  /\ plis = [o \in Objs |-> {}]
  /\ rd = [r \in Readers |-> NoReader]
  /\ wire = <<>>
  /\ correspondences = [c \in CorrIds |-> NoObj]
  /\ nobj = 0
  /\ ing = <<>>
  /\ last = NoLast
  /\ nin = 0
  /\ ncalls = 0
  /\ inv = [o \in Objs |-> NoInvocation]
  /\ rcv = NoReceive

\* new Peer(connection): #connect attaches the handler
Init ==
  /\ InitHeap
  /\ srv = NewServer
  /\ stream = TRUE
  /\ pipe = TRUE
  /\ exceptionHandlers = <<defaultExceptionHandlerEntry>>

NeedsObj(message) == validate(message) /\ correspondences[message.cid] = NoObj

\* the parser yields a value while the Peer listens; the subscriber of
\* 'correspondence' ignores the correspondence or subscribes to its events
HandleMessage ==
  \E message \in ParsedValues, k \in {"ignore", "on"} :
    /\ pipe
    /\ nin < MaxInbound
    /\ NeedsObj(message) => nobj < MaxObjs
    /\ Store(handleMessage(Heap, message, k))
    /\ nin' = nin + 1
    /\ UNCHANGED <<ncalls, ing>>

Called(s, op, o) == [s EXCEPT !.last.op = op, !.last.obj = o]

\* local code calls write(data) on a correspondence it holds
Write ==
  \E o \in Objs, data \in {"a"} :
    /\ corr[o].used
    /\ ncalls < MaxCalls
    /\ Store(write([Called(Heap, "write", o) EXCEPT !.last.msg.body = data],
                   o, data))
    /\ ncalls' = ncalls + 1
    /\ UNCHANGED <<nin, ing>>

\* local code calls finish(data) or finish()
Finish ==
  \E o \in Objs, data \in {"a", Undef} :
    /\ corr[o].used
    /\ ncalls < MaxCalls
    /\ Store(finish([Called(Heap, "finish", o) EXCEPT !.last.msg.body = data],
                    o, data))
    /\ ncalls' = ncalls + 1
    /\ UNCHANGED <<nin, ing>>

LocalError == [type |-> "LocalError", message |-> "local failed"]

\* local code calls error(err)
Error ==
  \E o \in Objs :
    /\ corr[o].used
    /\ ncalls < MaxCalls
    /\ Store(error([Called(Heap, "error", o) EXCEPT !.last.msg.error = LocalError],
                   o, LocalError))
    /\ ncalls' = ncalls + 1
    /\ UNCHANGED <<nin, ing>>

\* the messages local code hands to send()
SendMessages ==
  { Frame(TRUE, "c1", "s1", MessageTypes.Data, "a", NoMessageError),
    Frame(TRUE, "c2", "s1", MessageTypes.Finish, Undef, NoMessageError),
    Frame(TRUE, "c2", "", MessageTypes.Data, "a", NoMessageError) }

\* local code calls peer.send(message)
Send ==
  \E message \in SendMessages :
    /\ ncalls < MaxCalls
    /\ (stream /\ validate(message)) => nobj < MaxObjs
    /\ Store(send(Heap, message))
    /\ ncalls' = ncalls + 1
    /\ UNCHANGED <<nin, ing>>

\* local code calls peer.disconnect()
Disconnect ==
  /\ ncalls < MaxCalls
  /\ Store(disconnect(Heap))
  /\ ncalls' = ncalls + 1
  /\ UNCHANGED <<nin, ing>>

\* the stream emits 'close': the listener of #connect calls disconnect()
StreamClose ==
  /\ last.op # "close"
  /\ Store([disconnect(Heap) EXCEPT !.last.op = "close"])
  /\ UNCHANGED <<nin, ncalls, ing>>

Next ==
  \/ HandleMessage
  \/ Write
  \/ Finish
  \/ Error
  \/ Send
  \/ Disconnect
  \/ StreamClose

Spec == Init /\ [][Next]_vars

\* ------------------------------------------------------- reading runs
\* the frames handed to a correspondence that is being read
ReadFrames ==
  {m \in ValidFrames : m.cid = "c1" /\ m.subject = "s1"}

\* new Correspondence({ header, stream }), with or without listeners on its
\* public events
InitRead ==
  /\ corr = [o \in Objs |->
              IF o = 1
              THEN Correspondence(Frame(TRUE, "c1", "s1", "", Undef, NoMessageError), TRUE)
              ELSE NoCorr]
  /\ nobj = 1
  /\ \E l \in {{}, Events} : plis = [o \in Objs |-> IF o = 1 THEN l ELSE {}]
  /\ ilis = [o \in Objs |-> {}]
  /\ rd = [r \in Readers |-> NoReader]
  /\ wire = <<>>
  /\ correspondences = [c \in CorrIds |-> NoObj]
  /\ ing = <<>>
  /\ last = NoLast
  /\ nin = 0
  /\ ncalls = 0
  /\ stream = FALSE
  /\ pipe = FALSE
  /\ exceptionHandlers = <<defaultExceptionHandlerEntry>>
  /\ inv = [o \in Objs |-> NoInvocation]
  /\ rcv = NoReceive
  /\ srv = NewServer

\* correspondence.handle(message), as the Peer calls it for a tracked id
Ingest ==
  \E message \in ReadFrames :
    /\ Len(ing) < MaxFrames
    /\ Store([handle(Heap, 1, message) EXCEPT !.last.op = "handle",
                                               !.last.msg = message])
    /\ ing' = Append(ing, message)
    /\ UNCHANGED <<nin, ncalls>>

\* a consumer calls next(), or pulls from all()
Pull ==
  \E r \in Readers, o \in Objs, mode \in {"next", "all"} :
    /\ corr[o].used
    /\ \/ /\ rd[r].pc = "unused" /\ r \in FreeReaders(Heap)
          /\ \A q \in FreeReaders(Heap) : r <= q
       \/ rd[r].pc = "idle" /\ rd[r].obj = o /\ rd[r].mode = mode
    /\ Store([pull(Heap, r, o, mode) EXCEPT
                !.last.op = "pull",
                !.rd[r].seen = IF rd[r].pc = "unused" THEN Len(ing) ELSE @])
    /\ UNCHANGED <<nin, ncalls, ing>>

\* the finally() callback of a settled #nextChunk promise runs
Cleanup ==
  \E r \in Readers :
    /\ rd[r].pc = "settled"
    /\ Store([cleanup(Heap, r) EXCEPT !.last.op = "cleanup"])
    /\ UNCHANGED <<nin, ncalls, ing>>

\* the continuation of next() / all() runs
Resume ==
  \E r \in Readers :
    /\ rd[r].pc = "cleaned"
    /\ Store([resume(Heap, r) EXCEPT !.last.op = "resume"])
    /\ UNCHANGED <<nin, ncalls, ing>>

NextRead ==
  \/ Ingest
  \/ Pull
  \/ Cleanup
  \/ Resume

SpecRead == InitRead /\ [][NextRead]_vars

\* ------------------------------------------------- dispatch to readers
\* the parser yields a value while the Peer listens; the subscriber of
\* 'correspondence' ignores the correspondence, subscribes to its events, or
\* starts to read it with next() / all() before it returns
Receive ==
  \E message \in ParsedValues, k \in {"ignore", "on", "next", "all"} :
    /\ pipe
    /\ nin < MaxInbound
    /\ NeedsObj(message) => nobj < MaxObjs
    /\ k \in {"next", "all"} => FreeReaders(Heap) # {}
    /\ Store(handleMessage(Heap, message, k))
    /\ nin' = nin + 1
    /\ UNCHANGED <<ncalls, ing>>

NextDispatch ==
  \/ Receive
  \/ Pull
  \/ Cleanup
  \/ Resume
  \/ Disconnect
  \/ StreamClose

SpecDispatch == Init /\ [][NextDispatch]_vars

\* promise callbacks that are ready to run do run
FairSpecDispatch ==
  SpecDispatch /\ WF_vars(Cleanup) /\ WF_vars(Resume)

\* ----------------------------------------------------------- inbound runs
\* parsed values with an unknown type, an err frame without error, and
\* frames without type
OddFrames ==
  { Frame(TRUE, "c1", "s1", "bogus", "a", NoMessageError),
    Frame(TRUE, "c1", "s1", MessageTypes.Error, Undef, NoMessageError),
    Frame(TRUE, "c1", "s1", "", "a", NoMessageError),
    Frame(TRUE, "c2", "s1", "", "b", NoMessageError) }

InboundValues == ParsedValues \cup OddFrames

\* the parser yields any of these values while the Peer listens
Inbound ==
  \E message \in InboundValues, k \in {"ignore", "on", "next"} :
    /\ pipe
    /\ nin < MaxInbound
    /\ NeedsObj(message) => nobj < MaxObjs
    /\ k = "next" => FreeReaders(Heap) # {}
    /\ Store(handleMessage(Heap, message, k))
    /\ nin' = nin + 1
    /\ UNCHANGED <<ncalls, ing>>

\* the parser cannot parse a line and emits 'error'
LineError ==
  /\ nin < MaxInbound
  /\ Store(streamError(Heap, "pipe.error"))
  /\ nin' = nin + 1
  /\ UNCHANGED <<ncalls, ing>>

\* the stream emits 'error'
StreamError ==
  /\ nin < MaxInbound
  /\ Store(streamError(Heap, "stream.error"))
  /\ nin' = nin + 1
  /\ UNCHANGED <<ncalls, ing>>

NextInbound ==
  \/ Inbound
  \/ LineError
  \/ StreamError

SpecInbound == Init /\ [][NextInbound]_vars

\* ----------------------------------------------------------- receive runs
\* local code calls peer.receive() and awaits the promise
ReceiveCall ==
  /\ rcv.pc = "none"
  /\ Store(receive(Heap))
  /\ UNCHANGED <<nin, ncalls, ing>>

\* the continuation of the code that awaited receive() runs
Received ==
  /\ rcv.pc \in {"resolved", "rejected"}
  /\ ~rcv.read
  /\ Store(received(Heap))
  /\ UNCHANGED <<nin, ncalls, ing>>

NextReceive ==
  \/ ReceiveCall
  \/ HandleMessage
  \/ Send
  \/ Received
  \/ Cleanup
  \/ Resume
  \/ Disconnect

SpecReceive == Init /\ [][NextReceive]_vars

\* ------------------------------------------------------------ Server runs
\* new Server(), handleException(...) and connect(stream)
InitServer ==
  /\ InitHeap
  /\ srv = [NewServer EXCEPT !.peers = TRUE]
  /\ stream = TRUE
  /\ pipe = TRUE
  /\ exceptionHandlers \in Chains

\* the 'error' listener of Server.connect: what the Peer emits as 'error'
\* the Server emits as 'error'
RECURSIVE relayed(_)
relayed(es) ==
  IF es = <<>> THEN <<>>
  ELSE IF Head(es).ev = "error"
  THEN <<Head(es), ServerError(Head(es).kind, NoObj)>> \o relayed(Tail(es))
  ELSE <<Head(es)>> \o relayed(Tail(es))

relay(s) == [s EXCEPT !.last.emitted = relayed(@)]

\* what the parser yields on a stream connected to a Server in the runs below
ServerValues ==
  {m \in ParsedValues : m.type = MessageTypes.Data /\ m.subject # ""}

\* the parser yields a value on a stream connected to the Server; h is the
\* handler registered for the subject, or the default handler
ServerReceive ==
  \E message \in ServerValues, h \in Handlers \cup {unknownSubjectHandler} :
    /\ pipe
    /\ nin < MaxInbound
    /\ NeedsObj(message) => nobj < MaxInvocations
    /\ ~NeedsObj(message) => h = unknownSubjectHandler
    /\ Store(relay(handleMessage([Heap EXCEPT !.handler = h], message, "server")))
    /\ nin' = nin + 1
    /\ UNCHANGED <<ncalls, ing>>

\* the continuation of an async handler runs
HandlerContinue ==
  \E o \in Objs :
    /\ inv[o].ah = "await" /\ inv[o].hres = "pending"
    /\ Store(handlerContinue(Called(Heap, "handlerContinue", o), o))
    /\ UNCHANGED <<nin, ncalls, ing>>

\* the continuation of #applyHandler runs
ApplyResume ==
  \E o \in Objs :
    /\ inv[o].ah = "await" /\ inv[o].hres \in {"returned", "threw"}
    /\ Store(applyResume(Called(Heap, "applyResume", o), o))
    /\ UNCHANGED <<nin, ncalls, ing>>

\* the continuation of an async exception handler runs
ExceptionHandlerContinue ==
  \E o \in Objs :
    /\ inv[o].he = "await" /\ inv[o].xres = "pending"
    /\ Store(exceptionHandlerContinue(
               Called(Heap, "exceptionHandlerContinue", o), o))
    /\ UNCHANGED <<nin, ncalls, ing>>

\* the continuation of #handleException runs
HandleExceptionResume ==
  \E o \in Objs :
    /\ inv[o].he = "await" /\ inv[o].xres \in {"returned", "threw"}
    /\ Store(handleExceptionResume(
               Called(Heap, "handleExceptionResume", o), o))
    /\ UNCHANGED <<nin, ncalls, ing>>

NextServer ==
  \/ ServerReceive
  \/ HandlerContinue
  \/ ApplyResume
  \/ ExceptionHandlerContinue
  \/ HandleExceptionResume

SpecServer == InitServer /\ [][NextServer]_vars

\* continuations that are ready to run do run
FairSpecServer ==
  /\ SpecServer
  /\ WF_vars(HandlerContinue) /\ WF_vars(ApplyResume)
  /\ WF_vars(ExceptionHandlerContinue) /\ WF_vars(HandleExceptionResume)

\* ------------------------------------------------- properties of Peer runs
FramesBy(w, o) == SelectSeq(w, LAMBDA f : f.by = o)
Terminating(f) == f.type \in {MessageTypes.Finish, MessageTypes.Error}
WriteOps == {"write", "finish", "error"}

\* C1: once a Correspondence is unwritable, every later write(), finish() or
\* error() on it throws UnwritableCorrespondenceError, writes nothing and
\* leaves it unwritable; so the frames one Correspondence writes are data
\* frames followed by at most one fin or err frame.
C1_UnwritableStaysSilent ==
  /\ [][\A o \in Objs :
          (corr[o].used /\ ~corr[o].writable) =>
            /\ ~corr'[o].writable
            /\ FramesBy(wire', o) = FramesBy(wire, o)
            /\ (last'.op \in WriteOps /\ last'.obj = o /\ ncalls' # ncalls) =>
                 last'.threw = "UnwritableCorrespondenceError"]_vars
  /\ [](\A o \in Objs :
          LET w == FramesBy(wire, o)
          IN \A i \in 1..Len(w) : Terminating(w[i]) =>
               i = Len(w) /\ ~corr[o].writable)

C1_Witness ==
  /\ last.op = "write"
  /\ last.threw = "UnwritableCorrespondenceError"
  /\ FramesBy(wire, last.obj) # <<>>

\* C4: a parsed value either fails validation, and then an 'error' event
\* with an InvalidMessageError is all that happens, or it is valid and
\* exactly one Correspondence ingests it: the one tracked under its id,
\* constructed in this step exactly when none was tracked.
C4_DispatchOutcome ==
  [][(last'.op = "handleMessage" /\ nin' # nin) =>
       LET m == last'.msg
       IN IF ~validate(m)
          THEN /\ last'.emitted = <<PeerError("InvalidMessageError")>>
               /\ last'.ingested = <<>>
               /\ last'.created = NoObj
               /\ corr' = corr
               /\ correspondences' = correspondences
          ELSE LET o == correspondences'[m.cid]
               IN /\ \A i \in 1..Len(last'.emitted) :
                       last'.emitted[i].kind # "InvalidMessageError"
                  /\ last'.ingested = <<o>>
                  /\ o # NoObj /\ corr'[o].used
                  /\ IF correspondences[m.cid] = NoObj
                     THEN last'.created = o /\ ~corr[o].used
                     ELSE last'.created = NoObj /\ o = correspondences[m.cid]]_vars

C4_Witness ==
  /\ last.op = "handleMessage"
  /\ validate(last.msg)
  /\ last.created = NoObj
  /\ last.ingested = <<correspondences[last.msg.cid]>>
  /\ nin = 2

\* C8: after the Peer has disconnected, every Correspondence on it is
\* unreadable and unwritable, and a write(), finish() or error() made after
\* the disconnect fails.
C8_DisconnectClosesAll ==
  ~stream =>
    /\ \A o \in Objs : corr[o].used => ~corr[o].readable /\ ~corr[o].writable
    /\ last.op \in WriteOps => last.threw # "none"

\* C10: a Correspondence whose two halves are closed is no longer in the
\* Peer's map.
C10_TerminatedIsRemoved ==
  \A c \in CorrIds :
    correspondences[c] # NoObj =>
      corr[correspondences[c]].readable \/ corr[correspondences[c]].writable

\* ---------------------------------------------- properties of reading runs
\* the chunks of a frame sequence: the bodies of its data frames and of a
\* fin frame, where there is one
RECURSIVE Chunks(_)
Chunks(frames) ==
  IF frames = <<>> THEN <<>>
  ELSE LET m == Head(frames)
       IN (IF m.type # MessageTypes.Error /\ m.body # Undef
           THEN <<m.body>> ELSE <<>>) \o Chunks(Tail(frames))

\* the frame sequence ends with its only fin or err frame
EndsTerminated(frames) ==
  /\ frames # <<>>
  /\ \A i \in 1..Len(frames) : Terminating(frames[i]) <=> i = Len(frames)

\* C2: a consumer of all() that pulled before the first frame was handled
\* and whose iteration has ended has obtained exactly the chunks of the
\* frames, in order.
C2_AllYieldsEveryChunk ==
  \A r \in Readers :
    ( /\ rd[r].mode = "all"
      /\ rd[r].seen = 0
      /\ rd[r].pc \in {"done", "failed"}
      /\ EndsTerminated(ing) )
    => rd[r].out = Chunks(ing)

\* ------------------------------------------- properties of dispatch runs
\* what the first frame of a correspondence gives to a reader that waits
FirstOutcome(m) ==
  CASE m.type = MessageTypes.Data -> Resolved(m.body)
    [] m.type = MessageTypes.Finish ->
         IF m.body # Undef THEN Resolved(m.body) ELSE Resolved(End)
    [] m.type = MessageTypes.Error -> Rejected(CorrespondenceError(m.error))
    [] OTHER -> Pending

\* C3: a valid frame with an untracked id makes the Peer create a
\* Correspondence, emit 'correspondence' with it and only then ingest the
\* frame: a listener that calls next() (or pulls all()) inside the event is
\* settled by that very frame, with its body when it has one.
C3_FirstFrameReachesListener ==
  [][(last'.op = "handleMessage" /\ nin' # nin /\ last'.created # NoObj) =>
      LET o == last'.created
          m == last'.msg
      IN /\ corr'[o].used /\ correspondences'[m.cid] = o
         /\ last'.emitted # <<>>
         /\ last'.emitted[1] = PeerEvent("correspondence", o)
         /\ last'.ingested = <<o>>
         /\ \A r \in Readers :
              (rd[r].pc = "unused" /\ rd'[r].pc # "unused") =>
                /\ rd'[r].obj = o
                /\ rd'[r].pc = "settled"
                /\ rd'[r].res = FirstOutcome(m)]_vars

C3_Witness ==
  /\ last.op = "handleMessage"
  /\ last.created # NoObj
  /\ last.msg.type = MessageTypes.Data
  /\ \E r \in Readers :
       /\ rd[r].obj = last.created
       /\ rd[r].mode = "next"
       /\ rd[r].pc = "settled"
       /\ rd[r].res = Resolved(last.msg.body)

\* C9: a next() that is pending when the Peer disconnects is eventually
\* rejected with a PeerDisconnectedError.
C9_DisconnectRejectsPending ==
  \A r \in Readers :
    (rd[r].pc = "waiting" /\ last.op \in {"disconnect", "close"}
       /\ last.emitted = <<PeerEvent("disconnect", NoObj)>>) ~>
      (rd[r].res.kind = "rejected"
         /\ rd[r].res.err.name = "PeerDisconnectedError")
\* --------------------------------------------- properties of Server runs
\* C5: when a handler returns (or its promise resolves) without throwing,
\* the Server emits exactly one 'error' with an UnfinishedCorrespondenceError
\* for the correspondence if it is still writable, and writes no frame; it
\* emits no such error if the correspondence is unwritable.
C5_ReturnedHandlerOutcome ==
  /\ [][\A o \in Objs :
          (inv[o].ah = "await" /\ inv[o].hres = "returned"
             /\ inv'[o].ah = "done") =>
            /\ wire' = wire
            /\ IF corr[o].writable
               THEN /\ last'.emitted =
                         <<ServerError("UnfinishedCorrespondenceError", o)>>
                    /\ inv'[o].errors = 1
               ELSE /\ last'.emitted = <<>>
                    /\ inv'[o].errors = 0]_vars
  /\ [](\A o \in Objs :
          inv[o].hres = "returned" =>
            /\ inv[o].errors <= 1
            /\ inv[o].ah # "done" => inv[o].errors = 0)

C5_Witness ==
  \E o \in Objs :
    /\ inv[o].ah = "done" /\ inv[o].hres = "returned"
    /\ corr[o].writable
    /\ inv[o].errors = 1
    /\ last.op = "applyResume" /\ last.obj = o
    /\ FramesBy(wire, o) # <<>>

PipelineCompleted(o) ==
  /\ inv[o].hres = "threw"
  /\ inv[o].ah = "done"
  /\ inv[o].he \in {"done", "rejected"}

\* C6: when a handler throws, an UnfinishedCorrespondenceError is emitted
\* if and only if the correspondence is still writable once every
\* applicable exception handler has been called and awaited.
C6_UnfinishedOnlyAfterPipeline ==
  \A o \in Objs :
    PipelineCompleted(o) =>
      /\ inv[o].errors <= 1
      /\ inv[o].errors = 1 <=> corr[o].writable

Returning(chain) == \A i \in 1..Len(chain) : chain[i].end = "return"
Terminates(chain) == \E i \in 1..Len(chain) : chain[i].act = "finish"

\* the error defaultExceptionHandler is documented to send for an exception
DefaultError(exc) ==
  [type |-> IF exc.name = "" THEN "UnknownError" ELSE exc.name,
   message |-> IF exc.message = "" THEN "Unexpected error occurred!"
               ELSE exc.message]

TerminatingFramesBy(o) == SelectSeq(FramesBy(wire, o), Terminating)

\* C7: when a handler throws while its correspondence is writable and every
\* exception handler returns, the exception pipeline leaves the
\* correspondence unwritable with one terminating frame written; when no
\* custom exception handler terminates it, that frame is the err frame of
\* the default exception handler: the exception's name (or 'UnknownError')
\* and the exception's message (or 'Unexpected error occurred!').
C7_DefaultErrFrame ==
  \A o \in Objs :
    (PipelineCompleted(o) /\ inv[o].thrownWritable
       /\ Returning(exceptionHandlers)) =>
      /\ ~corr[o].writable
      /\ Len(TerminatingFramesBy(o)) = 1
      /\ ~Terminates(exceptionHandlers) =>
           /\ TerminatingFramesBy(o)[1].type = MessageTypes.Error
           /\ TerminatingFramesBy(o)[1].error = DefaultError(inv[o].exc)

\* the pipeline of a handler that threw while writable does complete
C7_PipelineCompletes ==
  \A o \in Objs :
    (inv[o].hres = "threw" /\ inv[o].thrownWritable
       /\ Returning(exceptionHandlers)) ~>
      (PipelineCompleted(o) /\ ~corr[o].writable
         /\ Len(TerminatingFramesBy(o)) = 1)

\* ------------------------------------------ properties of terminated ids
\* C11: once a fin or err frame was ingested on a correspondence, a later
\* data frame with the same correspondenceId is not delivered as a chunk to
\* that correspondence: not to a 'data' listener and not to a reader.
C11_NoChunkAfterTermination ==
  [][\A o \in Objs :
      (corr[o].used /\ ~corr[o].readable
         /\ last'.op = "handleMessage" /\ nin' # nin
         /\ last'.msg.type = MessageTypes.Data
         /\ last'.msg.cid = corr[o].cid) =>
        /\ \A i \in 1..Len(last'.pub) :
             ~(last'.pub[i].obj = o /\ last'.pub[i].ev.name = "data")
        /\ \A r \in Readers : rd[r].obj = o => rd'[r] = rd[r]]_vars

\* C12: the correspondence send(message) returns is not writable when the
\* message is a fin or err frame.
C12_SentTerminatorIsUnwritable ==
  (last.op = "send" /\ last.threw = "none" /\ Terminating(last.msg)) =>
    ~corr[last.obj].writable

\* ------------------------------------------- properties of reading runs (2)
\* a read is in progress: a next() that waits, or an all() iteration between
\* its first pull and its end
InProgress(r) ==
  \/ rd[r].mode = "next" /\ rd[r].pc = "waiting"
  \/ rd[r].mode = "all" /\ rd[r].pc \in {"waiting", "settled", "cleaned", "idle"}

\* C13: while a next() is pending or an all() iteration is in progress, no
\* chunk, finish or error of the correspondence reaches the listeners of its
\* public events.
C13_ReaderShadowsListeners ==
  [][(Len(ing') # Len(ing) /\ \E r \in Readers : InProgress(r)) =>
       last'.pub = <<>>]_vars

\* C14: when the frames of a correspondence end in an err frame, an all()
\* iteration that started before it ends with the CorrespondenceError of
\* that frame, never normally.
C14_AllObservesRemoteError ==
  \A r \in Readers :
    ( /\ rd[r].mode = "all" /\ rd[r].seen < Len(ing)
      /\ EndsTerminated(ing) /\ ing[Len(ing)].type = MessageTypes.Error
      /\ rd[r].pc \in {"done", "failed"} ) =>
      /\ rd[r].pc = "failed"
      /\ rd[r].res = Rejected(CorrespondenceError(ing[Len(ing)].error))

\* C15: a next() that waits when a frame is handled settles by that frame:
\* data resolves it with the body and leaves the correspondence readable,
\* fin resolves it with the body or with End, err rejects it with the
\* CorrespondenceError of the frame; after fin and err the correspondence is
\* unreadable.
C15_PendingNextSettlesByFrame ==
  [][\A r \in Readers :
      (Len(ing') # Len(ing) /\ rd[r].pc = "waiting") =>
        LET m == ing'[Len(ing')]
        IN /\ rd'[r].pc = "settled"
           /\ rd'[r].res = FirstOutcome(m)
           /\ corr'[rd[r].obj].readable = (m.type = MessageTypes.Data)
           /\ last'.threw = "none"]_vars

C15_Witness ==
  /\ last.op = "handle"
  /\ last.msg.type = MessageTypes.Finish /\ last.msg.body = "a"
  /\ \E r \in Readers :
       /\ rd[r].mode = "next" /\ rd[r].pc = "settled"
       /\ rd[r].res = Resolved("a")
       /\ ~corr[rd[r].obj].readable

\* C16: a read started on an unreadable correspondence fails with
\* UnreadableCorrespondenceError, for next() and for the first pull of all().
C16_UnreadableReadFails ==
  [][\A r \in Readers :
      (rd[r].pc = "unused" /\ rd'[r].pc # "unused"
         /\ ~corr[rd'[r].obj].readable) =>
        /\ rd'[r].pc = "failed"
        /\ rd'[r].res = Rejected(UnreadableCorrespondenceError)
        /\ rd'[r].out = <<>>]_vars

\* ------------------------------------------- properties of receive runs
\* C17: the next() that the code awaiting receive() calls on the
\* correspondence it was given settles by that correspondence's first frame.
C17_ReceivedReadsFirstFrame ==
  \A r \in Readers :
    ( /\ rcv.pc = "resolved" /\ rcv.read
      /\ rd[r].obj = rcv.obj /\ rd[r].mode = "next" /\ rd[r].out = <<>>
      /\ rd[r].pc \in {"settled", "failed"} ) =>
      rd[r].res = FirstOutcome(rcv.first)

\* the ids of the frames send() wrote
SentIds == {wire[i].cid : i \in {j \in 1..Len(wire) : wire[j].by = NoObj}}

\* C18: a pending receive() is resolved by the first correspondence the
\* remote side initiates; a frame whose id was initiated by send() is
\* handled by the correspondence send() tracked under it, with no
\* 'correspondence' event, and does not resolve receive().
C18_ReceiveResolvesOnRemoteOnly ==
  [][(last'.op = "handleMessage" /\ nin' # nin /\ validate(last'.msg)) =>
      LET m == last'.msg
      IN IF m.cid \in SentIds
         THEN /\ correspondences[m.cid] # NoObj
              /\ last'.ingested = <<correspondences[m.cid]>>
              /\ last'.created = NoObj
              /\ \A i \in 1..Len(last'.emitted) :
                   last'.emitted[i].ev # "correspondence"
              /\ rcv'.pc = "resolved" => rcv = rcv'
         ELSE (rcv.pc = "pending" /\ correspondences[m.cid] = NoObj) =>
                /\ rcv'.pc = "resolved"
                /\ rcv'.obj = last'.created
                /\ last'.created # NoObj
                /\ rcv'.first = m]_vars

C18_Witness ==
  /\ last.op = "handleMessage"
  /\ rcv.pc = "resolved" /\ rcv.obj = last.created /\ last.created # NoObj
  /\ SentIds # {}
  /\ \E c \in SentIds : correspondences[c] # NoObj /\ c # last.msg.cid

\* ------------------------------------------- properties of inbound runs
\* a message as the protocol defines a valid one
ValidMessage(m) ==
  /\ m.header
  /\ m.cid # "" /\ m.subject # ""
  /\ m.type \in {"", MessageTypes.Data, MessageTypes.Finish, MessageTypes.Error}
  /\ m.type = MessageTypes.Error => m.error.type # "" /\ m.error.message # ""

\* C19: validate accepts exactly the messages with a header, a non-empty id
\* and subject, a known type if any and, for err, an error with type and
\* message; an inbound frame that fails this is answered with an
\* InvalidMessageError and reaches no Correspondence.
C19_ValidateAcceptsValidOnly ==
  last.op = "handleMessage" =>
    /\ validate(last.msg) <=> ValidMessage(last.msg)
    /\ ~ValidMessage(last.msg) =>
         /\ last.emitted = <<PeerError("InvalidMessageError")>>
         /\ last.created = NoObj
         /\ last.ingested = <<>>

\* C20: an inbound frame without type is handled as a data frame: its
\* correspondence stores the header and publishes the body as a chunk.
C20_MissingTypeIsData ==
  (last.op = "handleMessage" /\ validate(last.msg) /\ last.msg.type = "") =>
    LET m == last.msg
        o == correspondences[m.cid]
    IN /\ o # NoObj
       /\ last.ingested = <<o>>
       /\ corr[o].cid = m.cid /\ corr[o].subject = m.subject
       /\ plis[o] = Events =>
            last.pub = <<[obj |-> o, ev |-> Event("data", m.body, NoError)]>>

RegistryHandlers ==
  {h \in Handlers :
     \/ ~h.async /\ h.first = "finish" /\ h.end = "return"
     \/ h.async /\ h.first = "none" /\ h.second = "finish"
     \/ ~h.async /\ h.first = "none" /\ h.end = "throw" /\ h.exc.name = "Error"}

\* the exception handlers registered: two custom ones and the exported
\* defaultExceptionHandler
RegistryExceptionHandlers ==
  { [async |-> FALSE, act |-> "none", end |-> "return"],
    [async |-> TRUE, act |-> "finish", end |-> "return"],
    defaultExceptionHandlerEntry }

\* the argument lists of handleException(...handlers)
ChainArgs ==
  {<<>>}
  \cup {<<h>> : h \in RegistryExceptionHandlers}
  \cup {<<h, g>> : h, g \in RegistryExceptionHandlers}

\* what the parser yields on the stream connected to the Server
RegistryValues ==
  {Frame(TRUE, "c1", subject, MessageTypes.Data, "a", NoMessageError) :
     subject \in RegistrySubjects}

\* new Server() followed by connect(stream)
InitRegistry ==
  /\ InitHeap
  /\ stream = TRUE
  /\ pipe = TRUE
  /\ exceptionHandlers = <<defaultExceptionHandlerEntry>>
  /\ srv = [NewServer EXCEPT !.peers = TRUE]

\* server.handle(subject, handler)
Handle ==
  \E subject \in RegistrySubjects, h \in RegistryHandlers :
    /\ ncalls < MaxCalls
    /\ Store(Server_handle(Heap, subject, h))
    /\ ncalls' = ncalls + 1
    /\ UNCHANGED <<nin, ing>>

\* server.defaultHandler(handler)
DefaultHandler ==
  \E h \in RegistryHandlers :
    /\ ncalls < MaxCalls
    /\ Store(Server_defaultHandler(Heap, h))
    /\ ncalls' = ncalls + 1
    /\ UNCHANGED <<nin, ing>>

\* server.handleException(...handlers)
HandleException ==
  \E handlers \in ChainArgs :
    /\ ncalls < MaxCalls
    /\ Store(Server_handleException(Heap, handlers))
    /\ ncalls' = ncalls + 1
    /\ UNCHANGED <<nin, ing>>

\* the parser yields a value on the stream: the Peer's 'correspondence'
\* listener is Server.#handleCorrespondence
ServerDispatch ==
  \E message \in RegistryValues :
    /\ pipe
    /\ nin < MaxInbound
    /\ NeedsObj(message) => nobj < MaxObjs
    /\ Store(relay(handleMessage(
               [Heap EXCEPT !.handler = findHandler(srv, message.subject)],
               message, "server")))
    /\ nin' = nin + 1
    /\ UNCHANGED <<ncalls, ing>>

\* server.disconnect(stream)
ServerDisconnect ==
  /\ ncalls < MaxCalls
  /\ Store(Server_disconnect(Heap))
  /\ ncalls' = ncalls + 1
  /\ UNCHANGED <<nin, ing>>

\* the stream emits 'close': the Peer disconnects and the Server's listener
\* of its 'disconnect' runs
ServerStreamClose ==
  /\ last.op # "close"
  /\ Store([peerDisconnect(Heap) EXCEPT !.last.op = "close"])
  /\ UNCHANGED <<nin, ncalls, ing>>

NextRegistry ==
  \/ Handle
  \/ DefaultHandler
  \/ HandleException
  \/ ServerDispatch
  \/ HandlerContinue
  \/ ApplyResume
  \/ ExceptionHandlerContinue
  \/ HandleExceptionResume
  \/ ServerDisconnect
  \/ ServerStreamClose

SpecRegistry == InitRegistry /\ [][NextRegistry]_vars

\* C22: the default exception handler is in #exceptionHandlers exactly once,
\* as its last element, and each handleException(...handlers) call puts its
\* handlers in front of the chain, the later argument first, so that the
\* chain lists the custom handlers from the newest to the oldest.
C22_DefaultLastNewestFirst ==
  /\ [](/\ exceptionHandlers # <<>>
        /\ \A j \in 1..Len(exceptionHandlers) :
             (exceptionHandlers[j] = defaultExceptionHandlerEntry)
               <=> (j = Len(exceptionHandlers)))
  /\ [][(last'.op = "Server.handleException" /\ ncalls' # ncalls) =>
          LET n == Len(last'.args)
          IN /\ Len(exceptionHandlers') = Len(exceptionHandlers) + n
             /\ \A j \in 1..n : exceptionHandlers'[j] = last'.args[n + 1 - j]
             /\ \A j \in 1..Len(exceptionHandlers) :
                  exceptionHandlers'[n + j] = exceptionHandlers[j]]_vars

\* C22, for any handlers: the default exception handler is the last element
\* of #exceptionHandlers, it occurs before that only where a caller
\* registered it, and each handleException(...handlers) call puts its
\* handlers in front of the chain, the later argument first.
C22_DefaultLastNewestFirstAmended ==
  /\ [](/\ exceptionHandlers # <<>>
        /\ exceptionHandlers[Len(exceptionHandlers)] =
             defaultExceptionHandlerEntry)
  /\ [][(last'.op = "Server.handleException" /\ ncalls' # ncalls) =>
          LET n == Len(last'.args)
          IN /\ Len(exceptionHandlers') = Len(exceptionHandlers) + n
             /\ \A j \in 1..n : exceptionHandlers'[j] = last'.args[n + 1 - j]
             /\ \A j \in 1..Len(exceptionHandlers) :
                  exceptionHandlers'[n + j] = exceptionHandlers[j]]_vars
  /\ [][(last'.op # "Server.handleException") =>
          exceptionHandlers' = exceptionHandlers]_vars

\* a second handleException call, with two different custom handlers
C22_Witness ==
  /\ last.op = "Server.handleException"
  /\ Len(last.args) = 2 /\ last.args[1] # last.args[2]
  /\ \A j \in 1..2 : last.args[j] # defaultExceptionHandlerEntry
  /\ Len(exceptionHandlers) >= 4
  /\ exceptionHandlers[1] = last.args[2]

\* C25: a frame that starts a correspondence makes the Server invoke exactly
\* one subject handler, the one last registered for the frame's subject or
\* else the current default handler; a frame of a tracked correspondence
\* invokes none. The built-in default handler writes one err frame with
\* type 'UnknownSubject' and message 'Unknown subject: ' + subject.
C25_OneSubjectHandler ==
  /\ [][(last'.op = "handleMessage" /\ nin' # nin) =>
          LET subject == last'.msg.subject
              o == last'.created
          IN /\ o = NoObj => last'.invoked = <<>>
             /\ o # NoObj =>
                  /\ last'.invoked =
                       <<IF srv.handlers[subject] # NoHandler
                         THEN srv.handlers[subject]
                         ELSE srv.defaultHandler>>
                  /\ last'.invoked = <<unknownSubjectHandler>> =>
                       LET w == FramesBy(wire', o)
                       IN /\ Len(w) = 1
                          /\ w[1].type = MessageTypes.Error
                          /\ w[1].cid = last'.msg.cid
                          /\ w[1].error.type = "UnknownSubject"
                          /\ w[1].error.message = "Unknown subject: " \o subject
                          /\ ~corr'[o].writable]_vars
  /\ [][IF last'.op = "Server.handle" /\ ncalls' # ncalls
        THEN /\ srv'.handlers = [srv.handlers EXCEPT
                                   ![last'.msg.subject] = last'.registered[1]]
             /\ srv'.defaultHandler = srv.defaultHandler
        ELSE IF last'.op = "Server.defaultHandler" /\ ncalls' # ncalls
        THEN /\ srv'.defaultHandler = last'.registered[1]
             /\ srv'.handlers = srv.handlers
        ELSE /\ srv'.handlers = srv.handlers
             /\ srv'.defaultHandler = srv.defaultHandler]_vars

\* after two registrations, a new correspondence reaches a registered handler
C25_Witness ==
  /\ last.op = "handleMessage" /\ last.created # NoObj
  /\ ncalls = 2
  /\ last.invoked = <<srv.handlers[last.msg.subject]>>
  /\ \E subject \in RegistrySubjects : srv.handlers[subject] = NoHandler
  /\ srv.defaultHandler = unknownSubjectHandler
  /\ exceptionHandlers = <<defaultExceptionHandlerEntry>>
  /\ srv.peers

\* C29: Server.disconnect(stream) for a connected stream emits the Server's
\* 'disconnect' once and removes the peer; once the peer is removed it stays
\* removed, the Peer no longer listens, no frame is taken from the stream
\* and no subject handler is invoked.
C29_ServerDisconnect ==
  /\ [][(last'.op = "Server.disconnect" /\ ncalls' # ncalls /\ srv.peers) =>
          /\ ~srv'.peers
          /\ ~pipe' /\ ~stream'
          /\ Len(SelectSeq(last'.emitted,
                 LAMBDA e : e = ServerEvent("Server.disconnect"))) = 1]_vars
  /\ [](~srv.peers => ~pipe /\ ~stream)
  /\ [][~srv.peers =>
          /\ ~srv'.peers
          /\ nin' = nin
          /\ last'.invoked = <<>>
          /\ nobj' = nobj]_vars

\* the Server disconnects a stream on which a correspondence had started
C29_Witness ==
  /\ last.op = "Server.disconnect"
  /\ ServerEvent("Server.disconnect") \in {last.emitted[j] : j \in 1..Len(last.emitted)}
  /\ ~srv.peers
  /\ nobj = 1

\* C23: exception handlers are called one at a time in chain order: the
\* first one only if the correspondence was writable when the subject
\* handler threw, each later one only after the one before it has returned
\* and while the correspondence is still writable.
C23_NoHandlerOnceUnwritable ==
  /\ [][\A o \in Objs :
          inv'[o].i # inv[o].i =>
            /\ inv'[o].i = inv[o].i + 1
            /\ inv'[o].i <= Len(exceptionHandlers)
            /\ IF inv[o].i = 0
               THEN inv'[o].hres = "threw" /\ inv'[o].thrownWritable
               ELSE /\ inv[o].he = "await" /\ inv[o].xres = "returned"
                    /\ corr[o].writable]_vars
  /\ [](\A o \in Objs :
          (inv[o].hres = "threw" /\ ~inv[o].thrownWritable) => inv[o].i = 0)

\* the pipeline stopped before the end of the chain, after a custom handler
\* had terminated the correspondence
C23_Witness ==
  \E o \in Objs :
    /\ inv[o].he = "done" /\ ~inv[o].caught
    /\ inv[o].i >= 1 /\ inv[o].i < Len(exceptionHandlers)
    /\ ~corr[o].writable

\* C24: when an exception handler throws, the pipeline ends without an
\* unhandled rejection, and the err frame 'GenericError' / 'Failed
\* processing correspondence' is the last frame of the correspondence.
C24_ThrowingExceptionHandler ==
  \A o \in Objs :
    inv[o].caught =>
      /\ inv[o].he # "rejected"
      /\ inv[o].he = "done" =>
           LET w == FramesBy(wire, o)
           IN /\ w # <<>>
              /\ w[Len(w)].type = MessageTypes.Error
              /\ w[Len(w)].error = GenericError

C27_FailedSendHasNoEffect ==
  /\ [][(last'.op = "send" /\ ncalls' # ncalls) =>
          /\ ~stream => last'.threw = "PeerDisconnectedError"
          /\ ~validate(last'.msg) => last'.threw # "none"
          /\ last'.threw # "none" =>
               /\ wire' = wire
               /\ correspondences' = correspondences
               /\ nobj' = nobj /\ corr' = corr]_vars
  /\ [][(last'.op = "receive" /\ ~stream) =>
          /\ last'.threw = "PeerDisconnectedError"
          /\ rcv' = rcv]_vars

\* a valid send() fails on a disconnected Peer that tracks a correspondence
C27_Witness ==
  /\ last.op = "send" /\ last.threw = "PeerDisconnectedError"
  /\ validate(last.msg)
  /\ ~stream
  /\ \E c \in CorrIds : correspondences[c] # NoObj

\* C28: when the stream of a connected Peer emits 'close', the Peer emits
\* 'disconnect' once, is no longer connected and no longer listens; a Peer
\* that does not listen never listens again, takes no frame from the
\* stream, hands none to a correspondence and announces no correspondence.
C28_CloseDisconnects ==
  /\ [][(last'.op = "close" /\ last.op # "close") =>
          /\ ~stream' /\ ~pipe'
          /\ IF pipe
             THEN last'.emitted = <<PeerEvent("disconnect", NoObj)>>
             ELSE last'.emitted = <<>>]_vars
  /\ [][~pipe =>
          /\ ~pipe' /\ ~stream'
          /\ nin' = nin
          /\ last'.ingested = <<>>
          /\ last'.created = NoObj
          /\ \A j \in 1..Len(last'.emitted) :
               last'.emitted[j].ev # "correspondence"]_vars

\* the stream closes under a Peer that tracks a correspondence
C28_Witness ==
  /\ last.op = "close"
  /\ last.emitted = <<PeerEvent("disconnect", NoObj)>>
  /\ ~stream /\ ~pipe
  /\ \E c \in CorrIds : correspondences[c] # NoObj

\* C30: two Correspondence objects of one Peer that carry the same
\* correspondenceId are never both live (readable or writable).
C30_OneLivePerId ==
  \A o1, o2 \in Objs :
    (/\ o1 # o2
     /\ corr[o1].used /\ corr[o2].used
     /\ corr[o1].cid = corr[o2].cid) =>
      ~(/\ corr[o1].readable \/ corr[o1].writable
        /\ corr[o2].readable \/ corr[o2].writable)

\* ------------------------------------------------ WritableCorrespondence
ViewProperties ==
  {"writable", "readable", "context", "header", "handle", "next", "all",
   "write", "finish", "error"}

\* new WritableCorrespondence(): the Correspondence constructor runs without
\* options, so #stream is undefined and #writable, the value of
\* (#stream && ...), is undefined; handle, next and all are set to
\* undefined and the getters readable and context return undefined
WritableCorrespondence ==
  [prop \in ViewProperties |->
     IF prop \in {"write", "finish", "error"} THEN "function" ELSE Undef]

\* source[prop] for a Correspondence a Peer created: the truth value of its
\* getters, its methods
property(s, o, prop) ==
  CASE prop = "writable" -> IF s.corr[o].writable THEN "true" ELSE "false"
    [] prop = "readable" -> IF s.corr[o].readable THEN "true" ELSE "false"
    [] prop \in {"context", "header"} -> "object"
    [] OTHER -> "function"

\* the get trap of Correspondence._proxy(source, target): a property the
\* target has is read from the source, methods bound to the source
proxy_get(s, o, target, prop) ==
  IF target[prop] # Undef /\ property(s, o, prop) # Undef
  THEN property(s, o, prop)
  ELSE Undef

\* WritableCorrespondence.wrap(correspondence), read property by property
wrap(s, o) ==
  [prop \in ViewProperties |-> proxy_get(s, o, WritableCorrespondence, prop)]

\* C31: the view wrap(c) is writable exactly when c is, its write, finish
\* and error are those of c, and it has no handle, next or all.
C31_ViewSharesState ==
  \A o \in Objs :
    corr[o].used =>
      LET view == wrap(Heap, o)
      IN /\ (view["writable"] = "true") <=> corr[o].writable
         /\ \A prop \in {"write", "finish", "error"} : view[prop] = "function"
         /\ \A prop \in {"handle", "next", "all"} : view[prop] = Undef

\* the bodies handle() emits with 'data' for a sequence of frames, in order
RECURSIVE EmittedBodies(_)
EmittedBodies(frames) ==
  IF frames = <<>> THEN <<>>
  ELSE LET m == Head(frames)
       IN (IF m.type = MessageTypes.Data
              \/ (m.type = MessageTypes.Finish /\ m.body # Undef)
           THEN <<m.body>> ELSE <<>>) \o EmittedBodies(Tail(frames))

RECURSIVE IsSubsequence(_, _)
IsSubsequence(a, b) ==
  IF a = <<>> THEN TRUE
  ELSE IF b = <<>> THEN FALSE
  ELSE IF Head(a) = Head(b) THEN IsSubsequence(Tail(a), Tail(b))
  ELSE IsSubsequence(a, Tail(b))

\* C32: the chunks one reader has obtained are a subsequence of the bodies
\* of the frames handled so far, in the order of the frames.
C32_ChunksInArrivalOrder ==
  \A r \in Readers : IsSubsequence(rd[r].out, EmittedBodies(ing))

\* a reader has obtained two different chunks
C32_Witness ==
  \E r \in Readers :
    /\ rd[r].mode = "next"
    /\ Len(rd[r].out) = 2 /\ rd[r].out[1] # rd[r].out[2]

\* -------------------------------------- a Server whose handler reads
\* async c => { for await (const chunk of c.all()) { }; c.finish() }
ReadingHandler ==
  [async |-> TRUE, first |-> "all", second |-> "finish", end |-> "return",
   exc |-> NoException]

\* c => c.finish(), sync or async
FinishingHandlers ==
  {h \in Handlers : h.first = "finish" /\ h.end = "return"}

\* frames of the correspondence c1 the reading handler serves, and the
\* first frame of another correspondence
SuspendedValues ==
  { Frame(TRUE, "c1", "s1", MessageTypes.Data, "a", NoMessageError),
    Frame(TRUE, "c1", "s1", MessageTypes.Finish, Undef, NoMessageError),
    Frame(TRUE, "c2", "s2", MessageTypes.Data, "a", NoMessageError),
    Frame(TRUE, "c2", "s2", MessageTypes.Data, "b", NoMessageError) }

\* server.handle('s1', reading); server.handle('s2', finishing); connect
InitSuspended ==
  /\ InitHeap
  /\ stream = TRUE
  /\ pipe = TRUE
  /\ exceptionHandlers = <<defaultExceptionHandlerEntry>>
  /\ \E h \in FinishingHandlers :
       srv = [NewServer EXCEPT !.peers = TRUE,
                               !.handlers["s1"] = ReadingHandler,
                               !.handlers["s2"] = h]

\* the parser yields a value; the Server's listener looks the handler up
SuspendedDispatch ==
  \E message \in SuspendedValues :
    /\ pipe
    /\ nin < MaxInbound
    /\ NeedsObj(message) => nobj < MaxObjs
    /\ Store(relay(handleMessage(
               [Heap EXCEPT !.handler = findHandler(srv, message.subject)],
               message, "server")))
    /\ nin' = nin + 1
    /\ UNCHANGED <<ncalls, ing>>

\* the reader a handler started on correspondence o
ReaderOf(o) == {r \in Readers : rd[r].obj = o /\ rd[r].mode # "none"}

\* the loop of the reading handler asks for the next chunk
HandlerPull ==
  \E o \in Objs, r \in Readers :
    /\ inv[o].ah = "await" /\ inv[o].hres = "pending"
    /\ r \in ReaderOf(o) /\ rd[r].pc = "idle"
    /\ Store(pull(Called(Heap, "pull", o), r, o, "all"))
    /\ UNCHANGED <<nin, ncalls, ing>>

\* the continuation of an async handler runs; the reading handler goes on
\* when its loop has ended
SuspendedContinue ==
  \E o \in Objs :
    /\ inv[o].ah = "await" /\ inv[o].hres = "pending"
    /\ inv[o].handler.first = "all" =>
         \A r \in ReaderOf(o) : rd[r].pc = "done"
    /\ Store(handlerContinue(Called(Heap, "handlerContinue", o), o))
    /\ UNCHANGED <<nin, ncalls, ing>>

NextSuspended ==
  \/ SuspendedDispatch
  \/ HandlerPull
  \/ Cleanup
  \/ Resume
  \/ SuspendedContinue
  \/ ApplyResume

SpecSuspended == InitSuspended /\ [][NextSuspended]_vars

\* the handler of correspondence o waits in next() for a frame
Suspended(o) ==
  /\ inv[o].ah = "await" /\ inv[o].hres = "pending"
  /\ \E r \in ReaderOf(o) : rd[r].pc = "waiting"

\* C33: while a handler waits in next() for a frame of its correspondence,
\* the Peer still takes the frames of other correspondences: each is handed
\* to its correspondence, a new correspondence gets its handler invoked, the
\* continuations of those handlers are free to run, and the waiting handler
\* keeps waiting.
C33_SuspendedHandlerDoesNotBlock ==
  /\ [][\A o1 \in Objs :
          (/\ Suspended(o1)
           /\ last'.op = "handleMessage" /\ nin' # nin
           /\ last'.msg.cid # corr[o1].cid) =>
            LET id == last'.msg.cid
                o2 == correspondences'[id]
            IN /\ o2 \notin {NoObj, o1}
               /\ last'.ingested = <<o2>>
               /\ correspondences[id] = NoObj =>
                    /\ last'.created = o2
                    /\ last'.invoked = <<srv.handlers[last'.msg.subject]>>
                    /\ inv'[o2].ah = "await"
               /\ inv'[o1] = inv[o1]
               /\ \A r \in ReaderOf(o1) : rd'[r] = rd[r]]_vars
  /\ [](\A o1 \in Objs :
          Suspended(o1) =>
            /\ (pipe /\ nin < MaxInbound /\ nobj < MaxObjs) =>
                 ENABLED SuspendedDispatch
            /\ (\E o2 \in Objs : inv[o2].ah = "await"
                                 /\ inv[o2].hres = "returned") =>
                 ENABLED ApplyResume)

\* the handler of one correspondence has run to completion while the
\* handler of another still waits for a frame
C33_Witness ==
  \E o1, o2 \in Objs :
    /\ Suspended(o1)
    /\ inv[o2].ah = "done" /\ inv[o2].hres = "returned"
    /\ ~corr[o2].writable
    /\ FramesBy(wire, o2) # <<>>

\* ------------------------------------- reading frames whose headers differ
\* frames of the correspondence c1 under two headers
HeaderFrames ==
  {Frame(TRUE, "c1", subject, MessageTypes.Data, b, NoMessageError) :
     subject \in RegistrySubjects, b \in Bodies}
  \cup {Frame(TRUE, "c1", subject, MessageTypes.Finish, Undef, NoMessageError) :
     subject \in RegistrySubjects}

\* handle(message) is called with the next frame
IngestHeader ==
  \E message \in HeaderFrames :
    /\ Len(ing) < MaxFrames
    /\ Store([handle(Heap, 1, message) EXCEPT !.last.op = "handle",
                                               !.last.msg = message])
    /\ ing' = Append(ing, message)
    /\ UNCHANGED <<nin, ncalls>>

NextHeaders ==
  \/ IngestHeader
  \/ Pull
  \/ Cleanup
  \/ Resume

SpecHeaders == InitRead /\ [][NextHeaders]_vars

\* C34: the header next() hands to its read handlers is the header of the
\* frame that carried the chunk it returns.
C34_HeaderOfReturnedChunk ==
  \A r \in Readers :
    (rd[r].mode = "next" /\ rd[r].pc = "idle") => rd[r].hdr = rd[r].from

\* ------------------------------------------ next() calls that wait at once
\* local code calls next() on the correspondence without awaiting the call
\* before: each call is a reader of its own
PullPending ==
  \E r \in Readers :
    /\ \/ /\ rd[r].pc = "unused"
          /\ \A q \in Readers : rd[q].pc = "unused" => r <= q
       \/ rd[r].pc = "idle"
    /\ Store([pull(Heap, r, 1, "next") EXCEPT
                !.last.op = "pull",
                !.rd[r].seen = IF rd[r].pc = "unused" THEN Len(ing) ELSE @])
    /\ UNCHANGED <<nin, ncalls, ing>>

NextPending ==
  \/ Ingest
  \/ PullPending
  \/ Cleanup
  \/ Resume

SpecPending == InitRead /\ [][NextPending]_vars

\* C35: a frame that is handled while two next() calls wait settles at most
\* one of them with its chunk.
C35_ChunkSettlesOneReader ==
  [][(Len(ing') # Len(ing)) =>
       \A r, q \in Readers :
         (/\ r # q
          /\ rd[r].pc = "waiting" /\ rd[q].pc = "waiting"
          /\ rd'[r].pc = "settled" /\ rd'[r].res.kind = "resolved"
          /\ rd'[r].res.val # End) =>
           rd'[q].pc = "waiting"]_vars

\* C36: a disconnect() call and the listener of the stream's 'close' never
\* throw, and emit 'disconnect' only for a Peer that was connected.
C36_DisconnectIdempotent ==
  /\ [](last.op \in {"disconnect", "close"} => last.threw = "none")
  /\ [][(last'.op \in {"disconnect", "close"} /\ last' # last /\ ~pipe) =>
          last'.emitted = <<>>]_vars

\* C37: no next() call waits on a correspondence that is unreadable.
C37_UnreadableHasNoWaitingReader ==
  \A r \in Readers :
    rd[r].pc = "waiting" => corr[rd[r].obj].readable

\* ----------------------------------------------- writing any JSON body
JsonBodies == Bodies \cup {"", JsZero, JsFalse, JsNull}

\* local code calls write(b) on the correspondence
WriteBody ==
  \E b \in JsonBodies :
    /\ ncalls < MaxCalls
    /\ Store(write([Called(Heap, "write", 1) EXCEPT !.last.msg.body = b], 1, b))
    /\ ncalls' = ncalls + 1
    /\ UNCHANGED <<nin, ing>>

\* local code calls finish(b) on the correspondence
FinishBody ==
  \E b \in JsonBodies :
    /\ ncalls < MaxCalls
    /\ Store(finish([Called(Heap, "finish", 1) EXCEPT !.last.msg.body = b], 1, b))
    /\ ncalls' = ncalls + 1
    /\ UNCHANGED <<nin, ing>>

NextBodies ==
  \/ WriteBody
  \/ FinishBody

SpecBodies == InitRead /\ [][NextBodies]_vars

\* C38: the frame a successful write(b) or finish(b) appends has the body b,
\* whatever JSON value b is.
C38_BodyIsWritten ==
  [][(last'.op \in {"write", "finish"} /\ ncalls' # ncalls
      /\ last'.threw = "none") =>
       /\ Len(wire') = Len(wire) + 1
       /\ wire'[Len(wire')].body = last'.msg.body]_vars

\* -------------------------------- a Server that connects a stream again
ConnectValues ==
  {Frame(TRUE, c, subject, MessageTypes.Data, "a", NoMessageError) :
     c \in CorrIds, subject \in RegistrySubjects}

\* server.handle('s1', async handler that finishes); server.connect(stream)
InitConnect ==
  /\ InitHeap
  /\ stream = TRUE
  /\ pipe = TRUE
  /\ exceptionHandlers = <<defaultExceptionHandlerEntry>>
  /\ \E h \in FinishingHandlers :
       srv = [NewServer EXCEPT !.peers = TRUE, !.handlers["s1"] = h]

\* server.connect(stream) is called again for the connected stream
Connect ==
  /\ ncalls < MaxCalls
  /\ ~srv.replaced
  /\ Store(Server_connect(Heap))
  /\ ncalls' = ncalls + 1
  /\ UNCHANGED <<nin, ing>>

\* the parsers yield a value on the stream
ConnectedDispatch ==
  \E message \in ConnectValues :
    /\ pipe
    /\ nin < MaxInbound
    /\ nobj + (IF srv.replaced THEN 2 ELSE 1) <= MaxObjs
    /\ Store(relay(dataHandlers(
               [Heap EXCEPT !.handler = findHandler(srv, message.subject)],
               message)))
    /\ nin' = nin + 1
    /\ UNCHANGED <<ncalls, ing>>

NextConnect ==
  \/ Connect
  \/ ConnectedDispatch
  \/ HandlerContinue
  \/ ApplyResume

SpecConnect == InitConnect /\ [][NextConnect]_vars

\* C39: a frame with an id that is new on the stream makes the Server invoke
\* exactly one subject handler, however often connect(stream) was called.
C39_OneInvocationPerCorrespondence ==
  [][(last'.op = "handleMessage" /\ nin' # nin
      /\ \A o \in Objs : corr[o].used => corr[o].cid # last'.msg.cid) =>
       Len(last'.invoked) = 1]_vars
====
